---- MODULE Spec2Model ----
(***************************************************************************)
(* Card processing state machine and background dispatcher of the AI Card  *)
(* Grader (src/App.tsx, src/services/geminiService.ts).                    *)
(*                                                                         *)
(* React state and refs of the App component are the variables.  A call of *)
(* setCards enqueues an update: `cards` is the state with every enqueued   *)
(* updater applied, `rendered` is the value committed by the last render   *)
(* (the value the effect closures see).  The dispatcher effect of a commit *)
(* runs some time after the commit; other callbacks may run in between.    *)
(***************************************************************************)
EXTENDS Integers, Sequences, FiniteSets, TLC

\* ---------------------------------------------------------------- bounds
MaxCards == 3      \* capture events (calls of generateId) in one run
MaxEvents == 1     \* user intents, deletions and remote merges, several cards
MaxCardEvents == 3 \* user intents, deletions and remote merges, one card
MaxRemote == 1     \* records in a remote collection
NumVals == 1       \* distinct values the grading service returns

\* ------------------------------------------------------ program constants
ConcurrencyBudget == 2    \* App.tsx:204
DefaultMaxRetries == 2    \* geminiService.ts:365
DefaultDelay == 2000      \* geminiService.ts:365
TimedMaxRetries == 4      \* part_005:48
TimedDelay == 5000        \* part_005:48
MaxDelay == 45000         \* geminiService.ts:57
JitterSpan == 2000        \* geminiService.ts:57

Images == {1}              \* image payloads (data URLs)
Vals == 1..NumVals
Undef == 0                \* an absent numeric or structured field
NoString == "undefined"   \* an absent string field
NoStudio == -1            \* window.aistudio is undefined

InProgressStatuses ==
    {"grading", "challenging", "regenerating_summary", "generating_summary", "fetching_value"}

Statuses == InProgressStatuses \cup {"needs_review", "reviewed", "grading_failed"}

IdentificationFields == {"name", "team", "year", "set", "company", "cardNumber", "edition"}

Min(a, b) == IF a < b THEN a ELSE b

\* ------------------------------------------------------------ card records
\* The record onRatingRequest prepends; the fields it does not set are absent.
NewCard(id, f, b, now) ==
    [id |-> id, frontImage |-> f, backImage |-> b, timestamp |-> now,
     gradingSystem |-> "NGA", status |-> "grading",
     name |-> Undef, team |-> Undef, year |-> Undef, set |-> Undef,
     company |-> Undef, cardNumber |-> Undef, edition |-> Undef,
     details |-> Undef, overallGrade |-> Undef, gradeName |-> Undef,
     summary |-> Undef, marketValue |-> Undef,
     challengeDirection |-> NoString, errorMessage |-> NoString,
     isSynced |-> NoString]

\* { ...c, ...u }: the fields of u replace those of c.
Spread(c, u) == [k \in DOMAIN c |-> IF k \in DOMAIN u THEN u[k] ELSE c[k]]

\* prev.map(c => c.id === id ? f(c) : c), with f(c) = { ...c, ...u }
MapById(cs, id, u) ==
    [i \in 1..Len(cs) |-> IF cs[i].id = id THEN Spread(cs[i], u) ELSE cs[i]]

\* cur.filter(c => c.id !== id)
RECURSIVE FilterOut(_, _)
FilterOut(cs, id) ==
    IF cs = <<>> THEN <<>>
    ELSE IF Head(cs).id = id THEN FilterOut(Tail(cs), id)
         ELSE <<Head(cs)>> \o FilterOut(Tail(cs), id)

IdsOf(cs) == {cs[i].id : i \in 1..Len(cs)}

\* ------------------------------------------------------- grading service
\* The module behind './services/geminiService': "geminiService" is
\* services/geminiService.ts, "part_005" the revision of it whose calls are cut
\* off by withTimeout.  It is fixed when the application is built.
VARIABLE service

\* What one generateContent call can do: answer with a text, or throw.
OkResponse(v) == [kind |-> "response", text |-> "json", val |-> v]
GarbageResponse == [kind |-> "response", text |-> "garbage", val |-> Undef]
EmptyResponse == [kind |-> "response", text |-> "", val |-> Undef]
Thrown(m) == [kind |-> "throw", text |-> m, val |-> Undef]

MsgOverloaded == "503 The model is overloaded. Service unavailable."
MsgQuota == "429 RESOURCE_EXHAUSTED: quota exceeded"
MsgBilling == "429 RESOURCE_EXHAUSTED: quota exceeded, check your plan and billing"
MsgKeyInvalid == "400 API_KEY_INVALID"
MsgPermission == "403 PERMISSION_DENIED: service disabled"
MsgFormat == "AI format error. Please try grading again."
MsgKeyMissing == "API_KEY_MISSING"
MsgTimeout == "API_TIMEOUT"
MsgTookTooLong == "The AI took too long to respond. This can happen on slow connections."

\* The substrings the code probes for that String(e).toLowerCase() contains.
Keywords(m) ==
    CASE m = MsgOverloaded -> {"503", "overloaded", "unavailable", "model is overloaded"}
      [] m = MsgQuota -> {"429", "quota", "resource_exhausted"}
      [] m = MsgBilling -> {"429", "quota", "resource_exhausted", "billing", "check your plan"}
      [] m = MsgKeyInvalid -> {"api_key_invalid"}
      [] OTHER -> {}

Includes(m, kw) == kw \in Keywords(m)

\* extractJson: the parsed value, or the error it throws.
extractJson(response) ==
    IF response.text = "json"
    THEN [ok |-> TRUE, val |-> response.val, msg |-> NoString]
    ELSE [ok |-> FALSE, val |-> Undef, msg |-> MsgFormat]

\* The outcome of fn() inside retryWithBackoff: the call, then extractJson.
CallOutcome(raw) ==
    IF raw.kind = "throw"
    THEN [ok |-> FALSE, val |-> Undef, msg |-> raw.text]
    ELSE extractJson(raw)

\* ------------------------------------------------------------- withRetry
\* withRetry of services/geminiService.ts (lines 40-66, service
\* "withRetry") and of part_007 (service "part_007"), with the defaults every
\* caller leaves in place.
retries(svc) == IF svc = "part_007" THEN 3 ELSE 15

initialDelay(svc) == IF svc = "part_007" THEN 2000 ELSE 4000

\* Math.random() * 2000: a value from 0 up to, not including, JitterSpan.
Jitters == {0, JitterSpan \div 2, JitterSpan - 1}

\* initialDelay * Math.pow(1.6, i), or initialDelay * Math.pow(2, i) in
\* part_007, in whole milliseconds.
RECURSIVE JitterFree(_, _)
JitterFree(svc, i) ==
    IF i = 0 THEN initialDelay(svc)
    ELSE IF svc = "part_007" THEN JitterFree(svc, i - 1) * 2
         ELSE (JitterFree(svc, i - 1) * 8) \div 5

\* A wait without Math.min.
RetryDelayUncapped(svc, i, jitter) == JitterFree(svc, i) + jitter

\* const delay, the wait after the failure of attempt i (from 0).
RetryDelay(svc, i, jitter) ==
    IF svc = "part_007" THEN JitterFree(svc, i)
    ELSE Min(JitterFree(svc, i) + jitter, MaxDelay)

\* isRetryable
isRetryable(svc, m) ==
    \E k \in (IF svc = "part_007" THEN {} ELSE {"unavailable", "504"})
               \cup {"overloaded", "busy", "503", "empty response"} : Includes(m, k)

MsgBusy == "The AI model is currently busy. Retrying... If this persists, please try again in a few minutes."

\* handleGeminiError: the message of the Error it returns.
handleGeminiError(m) ==
    IF Includes(m, "model is overloaded") \/ Includes(m, "busy") THEN MsgBusy
    ELSE IF Includes(m, "api key") \/ Includes(m, "401") THEN MsgKeyMissing
    ELSE IF m = "" THEN "An unexpected error occurred." ELSE m

\* One iteration of withRetry's loop after the call of task t has settled:
\* return the response, wait and call again, or throw.
WithRetryStep(svc, t, jitter) ==
    IF t.resp.kind = "response" THEN [t EXCEPT !.pc = "returned"]
    ELSE IF isRetryable(svc, t.resp.text) /\ t.attempts - 1 < t.maxRetries - 1
    THEN [t EXCEPT !.pc = "call", !.attempts = @ + 1,
                   !.delay = RetryDelay(svc, t.attempts - 1, jitter),
                   !.resp = Thrown(NoString)]
    ELSE [t EXCEPT !.pc = "thrown", !.resp = Thrown(handleGeminiError(t.resp.text))]

\* A test for another attempt that forgets the retries left.
ShouldRetryUnbounded(m, maxRetries) == Includes(m, "429") \/ Includes(m, "quota")

\* retryWithBackoff's test for another attempt after error message m.
ShouldRetry(m, maxRetries) ==
    (Includes(m, "429") \/ Includes(m, "quota")) /\ maxRetries > 0

ContextOf(status) ==
    CASE status = "grading" -> "grading"
      [] status = "fetching_value" -> "market_value"
      [] status = "challenging" -> "challenging"
      [] OTHER -> "regenerating_summary"

\* A handleApiError that rethrows the message as it is.
handleApiErrorNoFallback(m, context) == m

\* handleApiError: the message of the Error it throws for error message m.
handleApiError(m, context) ==
    IF Includes(m, "429") \/ Includes(m, "quota") \/ Includes(m, "resource_exhausted")
    THEN LET isBillingRestricted ==
                 \E k \in {"billing", "check your plan", "project", "paid"} : Includes(m, k)
         IN  IF context = "market_value"
             THEN IF isBillingRestricted THEN "SEARCH_BILLING_ISSUE" ELSE "SEARCH_QUOTA_EXHAUSTED"
             ELSE IF isBillingRestricted THEN "BILLING_LINK_REQUIRED" ELSE "QUOTA_EXHAUSTED"
    ELSE IF Includes(m, "api_key_invalid") \/ Includes(m, "key not found")
         THEN "API_KEY_INVALID"
         ELSE IF m = "" THEN "Unknown API Error" ELSE m

\* part_005, retryWithBackoff's test for another attempt after error message
\* m of withTimeout(fn(), 50000).
ShouldRetryTimed(m, maxRetries) ==
    /\ m # MsgTimeout
    /\ ~(Includes(m, "daily") /\ Includes(m, "limit"))
    /\ \E k \in {"429", "quota", "503", "overloaded", "unavailable", "resource_exhausted"} :
          Includes(m, k)
    /\ maxRetries > 0

\* part_005, handleApiError.
handleApiErrorTimed(m, context) ==
    IF m = MsgTimeout THEN MsgTookTooLong
    ELSE IF Includes(m, "429") \/ Includes(m, "quota") \/ Includes(m, "resource_exhausted")
    THEN IF Includes(m, "daily") \/ Includes(m, "20")
         THEN "DAILY_QUOTA_REACHED"
         ELSE "QUOTA_EXHAUSTED: You are sending requests too fast. Please wait 60 seconds."
    ELSE IF Includes(m, "503") \/ Includes(m, "overloaded") \/ Includes(m, "unavailable")
    THEN "SERVER_OVERLOADED"
    ELSE IF Includes(m, "api_key_invalid") \/ Includes(m, "key not found")
    THEN "API_KEY_INVALID: The provided API key is either incorrect or has been disabled."
    ELSE IF m = "" THEN "Unknown API Error" ELSE m


\* Answers that carry a market value whatever the operation.
PayloadWithMarketValue(status, v) ==
    IF v = Undef THEN <<>> ELSE [marketValue |-> v, summary |-> v]

\* The JSON each operation asks the service for, all fields carrying the
\* returned value v; v = Undef is a parsed answer without any field.
Payload(status, v) ==
    IF v = Undef THEN <<>>
    ELSE CASE status = "grading" ->
                [name |-> v, team |-> v, year |-> v, set |-> v, company |-> v,
                 cardNumber |-> v, edition |-> v, details |-> v,
                 overallGrade |-> v, gradeName |-> v, summary |-> v]
           [] status = "challenging" ->
                [details |-> v, overallGrade |-> v, gradeName |-> v, summary |-> v]
           [] status = "fetching_value" -> [marketValue |-> v]
           [] OTHER -> [details |-> v, summary |-> v]

\* ------------------------------------------------------------ processCard
\* A success path that takes every operation for the last one.
NextStatusReviewed(status) == "reviewed"

\* nextStatus of the success path.
NextStatus(status) ==
    IF status \in {"regenerating_summary", "generating_summary", "fetching_value"}
    THEN "reviewed"
    ELSE "needs_review"

\* { ...updates, status: nextStatus, isSynced: false }
SuccessFields(updates, nextStatus) ==
    [k \in DOMAIN updates \cup {"status", "isSynced"} |->
        IF k = "status" THEN nextStatus
        ELSE IF k = "isSynced" THEN "false"
        ELSE updates[k]]

\* A success path that writes the copy of the card captured at dispatch.
ApplySuccessOfCaptured(cs, card, v) ==
    MapById(cs, card.id,
            Spread(card, SuccessFields(Payload(card.status, v), NextStatus(card.status))))

\* The updater of the success path, for the card captured at dispatch.
ApplySuccess(cs, card, v) ==
    MapById(cs, card.id, SuccessFields(Payload(card.status, v), NextStatus(card.status)))

\* A catch path that marks every record.
ApplyFailureToAll(cs, card, msg) ==
    [i \in 1..Len(cs) |-> Spread(cs[i], [status |-> "grading_failed", errorMessage |-> msg])]

\* The updater of the catch path.
ApplyFailure(cs, card, msg) ==
    MapById(cs, card.id, [status |-> "grading_failed", errorMessage |-> msg])

\* A processCard that does not record the id it starts.
ReserveNothing(processing, id) == processing

\* processingCards.current.add(id)
Reserve(processing, id) == processing \cup {id}

\* A processCard without its finally block.
ReleaseNothing(processing, id) == processing

\* processingCards.current.delete(id)
Release(processing, id) == processing \ {id}

\* The filter of the dispatcher effect.
Eligible(c, processing) == c.status \in InProgressStatuses /\ c.id \notin processing

\* A pass that starts the whole queue.
SelectedWholeQueue(cs, processing) == SelectSeq(cs, LAMBDA c : Eligible(c, processing))

\* queue.slice(0, 2 - processingCards.current.size), taken only when the queue
\* is not empty and a slot is free.
Selected(cs, processing) ==
    LET queue == SelectSeq(cs, LAMBDA c : Eligible(c, processing))
        free == ConcurrencyBudget - Cardinality(processing)
    IN  IF Len(queue) > 0 /\ Cardinality(processing) < ConcurrencyBudget
        THEN SubSeq(queue, 1, Min(Len(queue), free))
        ELSE <<>>

\* The processCard invocation started for card: getAI() throws without a key,
\* otherwise the first generateContent call is out.
NewTask(card, hasKey) ==
    [card |-> card,
     pc |-> IF hasKey THEN "call" ELSE "nokey",
     maxRetries |-> IF service = "part_005" THEN TimedMaxRetries ELSE DefaultMaxRetries,
     delay |-> IF service = "part_005" THEN TimedDelay ELSE DefaultDelay,
     attempts |-> IF hasKey THEN 1 ELSE 0,
     resp |-> Thrown(NoString)]

\* selected.forEach(processCard): the synchronous part of each invocation.
RECURSIVE StartAll(_, _, _, _, _)
StartAll(sel, processing, ts, counts, hasKey) ==
    IF sel = <<>> THEN [processing |-> processing, tasks |-> ts, counts |-> counts]
    ELSE LET c == Head(sel)
         IN  IF c.id \in processing
             THEN StartAll(Tail(sel), processing, ts, counts, hasKey)
             ELSE StartAll(Tail(sel), Reserve(processing, c.id),
                           Append(ts, NewTask(c, hasKey)),
                           [counts EXCEPT ![c.id] = Min(@ + 1, 2)], hasKey)

RemoveAt(s, i) == SubSeq(s, 1, i - 1) \o SubSeq(s, i + 1, Len(s))

\* ------------------------------------------- stored and remote collections
StringFields == {"status", "gradingSystem", "challengeDirection", "errorMessage", "isSynced"}

\* The keys a record read from JSON has.
Present(c) ==
    {k \in DOMAIN c : IF k \in StringFields THEN c[k] # NoString ELSE c[k] # Undef}

normalizeCards(data, fresh, now) ==
    [i \in 1..Len(data) |->
        LET c == data[i]
        IN  [c EXCEPT
               !.id = IF @ = Undef THEN fresh + i - 1 ELSE @,
               !.status = IF @ = NoString
                          THEN (IF c.overallGrade # Undef THEN "reviewed" ELSE "needs_review")
                          ELSE @,
               !.timestamp = IF @ = Undef THEN now ELSE @,
               !.gradingSystem = "NGA",
               !.isSynced = IF @ \in {"true", "false"} THEN @ ELSE "true"]]

\* The keys of a card record.
CardKeys == DOMAIN NewCard(1, 1, 1, 1)

\* A stringify that leaves the status out.
StringifyWithoutStatus(cs) ==
    [i \in 1..Len(cs) |-> [k \in Present(cs[i]) \ {"status"} |-> cs[i][k]]]

\* JSON.stringify(cards): an array of objects; a key whose value is undefined
\* is left out.
Stringify(cs) == [i \in 1..Len(cs) |-> [k \in Present(cs[i]) |-> cs[i][k]]]

\* response.json(): the objects of the text; a key the text does not have
\* reads as undefined.
Parse(json) ==
    [i \in 1..Len(json) |->
        [k \in CardKeys |->
            IF k \in DOMAIN json[i] THEN json[i][k]
            ELSE IF k \in StringFields THEN NoString ELSE Undef]]

\* getCollection: the cards of the newest collection file, none without one.
\* file is <<>> or <<text>>.
getCollection(file) == IF file = <<>> THEN <<>> ELSE Parse(file[1])

\* A save that counts as done whatever the store answered.
AfterSaveAlways(ref, str, ok) == <<str>>

\* lastSavedRef.current after saveCollection has settled: the try block
\* records the text only when saveCollection did not throw.
AfterSave(ref, str, ok) == IF ok THEN <<str>> ELSE ref

\* merged.find(m => m.id === rc.id || (m.name === rc.name && m.frontImage === rc.frontImage))
FindExisting(merged, rc) ==
    LET hits == {i \in 1..Len(merged) :
                    \/ merged[i].id = rc.id
                    \/ (merged[i].name = rc.name /\ merged[i].frontImage = rc.frontImage)}
    IN  IF hits = {} THEN 0 ELSE CHOOSE i \in hits : \A j \in hits : i <= j

\* One step of remoteCards.forEach in refreshCollection.
MergeRemote(merged, rc) ==
    LET idx == FindExisting(merged, rc)
    IN  IF idx = 0 THEN Append(merged, rc)
        ELSE [merged EXCEPT ![idx] = Spread(@, [k \in Present(rc) |-> rc[k]])]

RECURSIVE MergeAll(_, _)
MergeAll(merged, remoteCards) ==
    IF remoteCards = <<>> THEN merged
    ELSE MergeAll(MergeRemote(merged, Head(remoteCards)), Tail(remoteCards))

\* Array.prototype.sort((a, b) => b.timestamp - a.timestamp): stable, newest first.
RECURSIVE InsertByTimestamp(_, _)
InsertByTimestamp(sorted, c) ==
    IF sorted = <<>> THEN <<c>>
    ELSE IF Head(sorted).timestamp >= c.timestamp
         THEN <<Head(sorted)>> \o InsertByTimestamp(Tail(sorted), c)
         ELSE <<c>> \o sorted

RECURSIVE SortByTimestamp(_)
SortByTimestamp(cs) ==
    IF cs = <<>> THEN <<>>
    ELSE InsertByTimestamp(SortByTimestamp(SubSeq(cs, 1, Len(cs) - 1)), cs[Len(cs)])

\* A record of a saved collection: a card this application saved earlier, in
\* status grading as captured, in a later status with its grading merged.
SavedCard(id, f, status) ==
    LET fresh == NewCard(id, f, f, id)
    IN  IF status = "grading" THEN fresh
        ELSE Spread(Spread(fresh, Payload("grading", 1)),
                    [k \in {"status"} \cup (IF status = "challenging"
                                            THEN {"challengeDirection"} ELSE {}) |->
                        IF k = "status" THEN status ELSE "higher"])

SavedRecords(ids, statuses) ==
    {SavedCard(id, f, st) : id \in ids, f \in Images, st \in statuses}

RECURSIVE SeqsUpTo(_, _)
SeqsUpTo(S, n) ==
    IF n = 0 THEN {<<>>}
    ELSE LET shorter == SeqsUpTo(S, n - 1)
         IN  shorter \cup {Append(q, x) : q \in {r \in shorter : Len(r) = n - 1}, x \in S}

\* ------------------------------------------------------------------ state
VARIABLES
    cards,            \* useState cards, every enqueued updater applied
    rendered,         \* cards as committed by the last render
    renderPending,    \* setCards was called since the last render
    effectPending,    \* the dispatcher effect of the last commit has not run
    processingCards,  \* useRef processingCards: the in-progress id set
    tasks,            \* processCard invocations suspended at an await
    nextId,           \* generateId / Date.now: the next fresh value
    hasApiKey,        \* getAI finds a key in process.env or localStorage
    user,             \* useGoogleAuth: a user is signed in
    eventsLeft,       \* user intents, deletions and remote merges still to come
    dispatched,       \* history: invocations started per id (2 = two or more)
    deleted,          \* history: per id, "no" or how the user deleted it:
                      \* "inflight" with its operation in flight, else "idle"
    failedIn,         \* history: per id, the status whose operation failed
                      \* last (the card.status processCard's catch ran for)
    keyPrompts,       \* calls of window.aistudio.openSelectKey so far, or
                      \* NoStudio where window.aistudio is undefined
    saveTimer,        \* the 30 s timer of the persistence effect is running
    saving,           \* <<>>, or <<the cards of the save in flight>>
    lastSavedRef,     \* <<>> for '', or <<the text saved last>>
    store             \* <<>>, or <<the text of the newest collection file>>

vars == <<cards, rendered, renderPending, effectPending, processingCards, tasks,
          nextId, hasApiKey, user, eventsLeft, dispatched, deleted, failedIn, service,
          keyPrompts, saveTimer, saving, lastSavedRef, store>>

storeVars == <<saving, lastSavedRef, store>>

CardIds == 1..(MaxCards + 1)

\* The App component after construction: the cards recovered from
\* localStorage are the first committed value, the effects of the first
\* render are still to run.
MountedIn(svc, studio, stored, first, key, signedIn, events) ==
    /\ service = svc
    /\ keyPrompts = IF studio THEN 0 ELSE NoStudio
    /\ saveTimer = TRUE
    /\ saving = <<>>
    /\ lastSavedRef = <<>>
    /\ store = <<>>
    /\ cards = normalizeCards(stored, first, first)
    /\ rendered = cards
    /\ renderPending = FALSE
    /\ effectPending = TRUE
    /\ processingCards = {}
    /\ tasks = <<>>
    /\ nextId = first
    /\ hasApiKey = key
    /\ user = signedIn
    /\ eventsLeft = events
    /\ dispatched = [i \in CardIds |-> 0]
    /\ deleted = [i \in CardIds |-> "no"]
    /\ failedIn = [i \in CardIds |-> "none"]

\* The application in a browser without window.aistudio.
MountedWith(svc, stored, first, key, signedIn, events) ==
    MountedIn(svc, FALSE, stored, first, key, signedIn, events)

\* The build whose service module is services/geminiService.ts.
Mounted(stored, first, key, signedIn, events) ==
    MountedWith("geminiService", stored, first, key, signedIn, events)

\* A signed-in user with a key configured starts with an empty collection.
Init == Mounted(<<>>, 1, TRUE, TRUE, MaxEvents)

\* setCards(updater): the update is enqueued and a render is scheduled.
SetCards(next) ==
    /\ cards' = next
    /\ renderPending' = TRUE

\* React renders the enqueued updates and commits; the effects that depend on
\* cards are scheduled.  Pending effects are flushed before a new render.
Render ==
    /\ renderPending
    /\ ~effectPending
    /\ rendered' = cards
    /\ renderPending' = FALSE
    /\ effectPending' = TRUE
    /\ saveTimer' = TRUE
    /\ UNCHANGED <<cards, processingCards, tasks, nextId, hasApiKey, user, eventsLeft,
                   dispatched, deleted, failedIn,
                   service, keyPrompts, storeVars>>

\* The dispatcher effect: one scheduling pass over the committed cards.
DispatcherEffect ==
    /\ effectPending
    /\ LET started == StartAll(Selected(rendered, processingCards), processingCards,
                               tasks, dispatched, hasApiKey)
       IN  /\ processingCards' = started.processing
           /\ tasks' = started.tasks
           /\ dispatched' = started.counts
    /\ effectPending' = FALSE
    /\ UNCHANGED <<cards, rendered, renderPending, nextId, hasApiKey, user, eventsLeft,
                   deleted, failedIn,
                   service, keyPrompts, saveTimer, storeVars>>

\* The grading service settles the outstanding call of invocation i.
ServiceReply(i, raw) ==
    /\ i \in 1..Len(tasks)
    /\ tasks[i].pc = "call"
    /\ tasks' = [tasks EXCEPT ![i].pc = "reply", ![i].resp = raw]
    /\ UNCHANGED <<cards, rendered, renderPending, effectPending, processingCards,
                   nextId, hasApiKey, user, eventsLeft, dispatched, deleted, failedIn,
                   service, keyPrompts, saveTimer, storeVars>>

\* What invocation t does when it resumes: retry, succeed or fail.
Resume(t) ==
    LET thrown(m) == IF service = "part_005"
                     THEN handleApiErrorTimed(m, ContextOf(t.card.status))
                     ELSE handleApiError(m, ContextOf(t.card.status))
        again(m) == IF service = "part_005"
                    THEN ShouldRetryTimed(m, t.maxRetries)
                    ELSE ShouldRetry(m, t.maxRetries)
    IN  IF t.pc = "nokey"
        THEN [step |-> "fail", val |-> Undef, msg |-> thrown(MsgKeyMissing)]
        ELSE LET out == CallOutcome(t.resp)
             IN  IF out.ok THEN [step |-> "success", val |-> out.val, msg |-> NoString]
                 ELSE IF again(out.msg)
                      THEN [step |-> "retry", val |-> Undef, msg |-> out.msg]
                      ELSE [step |-> "fail", val |-> Undef, msg |-> thrown(out.msg)]

\* retryWithBackoff(fn, maxRetries - 1, delay * 2) after the wait.
Retried(t) ==
    [t EXCEPT !.pc = "call", !.maxRetries = @ - 1, !.delay = @ * 2,
              !.attempts = @ + 1, !.resp = Thrown(NoString)]

\* A catch that never asks for a key.
PromptsNever(prompts, step, msg) == prompts

\* The catch of processCard: openSelectKey is called, and not awaited, when
\* the message is API_KEY_MISSING and window.aistudio exists.
OpenSelectKey(prompts, step, msg) ==
    IF step = "fail" /\ msg = MsgKeyMissing /\ prompts # NoStudio
    THEN prompts + 1
    ELSE prompts

\* processCard resumes after its await: the retry wrapper, then the success
\* or the catch path, then finally.
ProcessCardResume(i) ==
    /\ i \in 1..Len(tasks)
    /\ tasks[i].pc \in {"reply", "nokey"}
    /\ LET t == tasks[i]
           r == Resume(t)
       IN  IF r.step = "retry"
           THEN /\ tasks' = [tasks EXCEPT ![i] = Retried(t)]
                /\ UNCHANGED <<cards, renderPending, processingCards, failedIn,
                               keyPrompts>>
           ELSE /\ SetCards(IF r.step = "success"
                            THEN ApplySuccess(cards, t.card, r.val)
                            ELSE ApplyFailure(cards, t.card, r.msg))
                /\ processingCards' = Release(processingCards, t.card.id)
                /\ tasks' = RemoveAt(tasks, i)
                /\ failedIn' = IF r.step = "success" THEN failedIn
                               ELSE [failedIn EXCEPT ![t.card.id] = t.card.status]
                /\ keyPrompts' = OpenSelectKey(keyPrompts, r.step, r.msg)
    /\ UNCHANGED <<rendered, effectPending, nextId, hasApiKey, user, eventsLeft,
                   dispatched, deleted, service, saveTimer, storeVars>>

\* ------------------------------------------------------------- user events
\* The record set the user sees shows a card with this id in one of statuses.
Shows(id, statuses) ==
    \E i \in 1..Len(rendered) : rendered[i].id = id /\ rendered[i].status \in statuses

UserEvent(next) ==
    /\ eventsLeft > 0
    /\ eventsLeft' = eventsLeft - 1
    /\ SetCards(next)
    /\ UNCHANGED <<rendered, effectPending, processingCards, tasks, nextId, hasApiKey,
                   user, dispatched, deleted, failedIn,
                   service, keyPrompts, saveTimer, storeVars>>

\* CardScanner onRatingRequest: a new card is prepended in status grading.
OnRatingRequest(f, b) ==
    /\ nextId <= MaxCards
    /\ SetCards(<<NewCard(nextId, f, b, nextId)>> \o cards)
    /\ nextId' = nextId + 1
    /\ UNCHANGED <<rendered, effectPending, processingCards, tasks, hasApiKey, user,
                   eventsLeft, dispatched, deleted, failedIn,
                   service, keyPrompts, saveTimer, storeVars>>

OnDelete(id) ==
    /\ Shows(id, Statuses)
    /\ eventsLeft > 0
    /\ eventsLeft' = eventsLeft - 1
    /\ SetCards(FilterOut(cards, id))
    /\ deleted' = [deleted EXCEPT ![id] = IF id \in processingCards THEN "inflight" ELSE "idle"]
    /\ UNCHANGED <<rendered, effectPending, processingCards, tasks, nextId, hasApiKey,
                   user, dispatched, failedIn,
                   service, keyPrompts, saveTimer, storeVars>>

OnChallengeGrade(id, d) ==
    /\ Shows(id, {"needs_review"})
    /\ UserEvent(MapById(cards, id, [status |-> "challenging", challengeDirection |-> d]))

OnRetryGrading(id) ==
    /\ Shows(id, {"grading_failed"})
    /\ UserEvent(MapById(cards, id, [status |-> "grading"]))

OnAcceptGrade(id) ==
    /\ Shows(id, {"needs_review"})
    /\ UserEvent(MapById(cards, id, [status |-> "fetching_value"]))

OnManualGrade(id, g, n) ==
    /\ Shows(id, {"needs_review", "grading_failed"})
    /\ UserEvent(MapById(cards, id, [status |-> "regenerating_summary",
                                     overallGrade |-> g, gradeName |-> n]))

OnGetMarketValue(id) ==
    /\ \E i \in 1..Len(rendered) :
          /\ rendered[i].id = id
          /\ rendered[i].status = "reviewed"
          /\ rendered[i].marketValue = Undef
    /\ UserEvent(MapById(cards, id, [status |-> "fetching_value"]))

\* refreshCollection, from the arrival of the remote data on.  The remote
\* records were saved earlier, so their ids were generated earlier: generateId
\* never hands out the id of a stored record again.
RefreshCollection(remoteData) ==
    /\ user
    /\ \A k \in 1..Len(remoteData) : remoteData[k].id < nextId
    /\ eventsLeft > 0
    /\ eventsLeft' = eventsLeft - 1
    /\ SetCards(SortByTimestamp(MergeAll(cards, normalizeCards(remoteData, nextId, nextId))))
    /\ UNCHANGED <<rendered, effectPending, processingCards, tasks, nextId, hasApiKey,
                   user, dispatched, deleted, failedIn,
                   service, keyPrompts, saveTimer, storeVars>>

\* -------------------------------------------------------- withRetry, steps
\* An analysis function calls withRetry for a card: i = 0 and the first
\* apiCall is made.
WithRetryEnter(card) ==
    /\ service \in {"withRetry", "part_007"}
    /\ tasks = <<>>
    /\ tasks' = <<[card |-> card, pc |-> "call", maxRetries |-> retries(service),
                   delay |-> 0, attempts |-> 1, resp |-> Thrown(NoString)]>>
    /\ UNCHANGED <<cards, rendered, renderPending, effectPending, processingCards,
                   nextId, hasApiKey, user, eventsLeft, dispatched, deleted, failedIn,
                   service, keyPrompts, saveTimer, storeVars>>

\* The awaited apiCall has settled and the loop goes on.
WithRetryResume(i, jitter) ==
    /\ service \in {"withRetry", "part_007"}
    /\ i \in 1..Len(tasks)
    /\ tasks[i].pc = "reply"
    /\ tasks' = [tasks EXCEPT ![i] = WithRetryStep(service, tasks[i], jitter)]
    /\ UNCHANGED <<cards, rendered, renderPending, effectPending, processingCards,
                   nextId, hasApiKey, user, eventsLeft, dispatched, deleted, failedIn,
                   service, keyPrompts, saveTimer, storeVars>>

\* ------------------------------------------------------------ persistence
\* The timer of the persistence effect fires, 30 s after the commit that set
\* it: the cards of that commit are saved when a user is signed in, they are
\* not the text saved last and there is at least one.  A save takes less
\* than the 30 s of the next timer.  (driveFileId only selects the file that
\* is written; the store keeps the newest file.)
SaveTimerFires ==
    /\ saveTimer
    /\ saving = <<>>
    /\ saveTimer' = FALSE
    /\ saving' = IF user /\ <<Stringify(rendered)>> # lastSavedRef /\ Len(rendered) > 0
                 THEN <<rendered>>
                 ELSE <<>>
    /\ UNCHANGED <<cards, rendered, renderPending, effectPending, processingCards, tasks,
                   nextId, hasApiKey, user, eventsLeft, dispatched, deleted, failedIn,
                   service, keyPrompts, lastSavedRef, store>>

\* getAccessToken and saveCollection settle: ok, the file holds the text and
\* lastSavedRef records it; not ok, one of them threw and the catch is empty.
SaveSettles(ok) ==
    /\ saving # <<>>
    /\ saving' = <<>>
    /\ store' = IF ok THEN <<Stringify(saving[1])>> ELSE store
    /\ lastSavedRef' = AfterSave(lastSavedRef, Stringify(saving[1]), ok)
    /\ UNCHANGED <<cards, rendered, renderPending, effectPending, processingCards, tasks,
                   nextId, hasApiKey, user, eventsLeft, dispatched, deleted, failedIn,
                   service, keyPrompts, saveTimer>>

\* refreshCollection when the remote data are the file of the store.
LoadCollection == RefreshCollection(getCollection(store))

\* ----------------------------------------------------------- specification
\* What the grading service does to one call.
Responses == {OkResponse(v) : v \in Vals} \cup {Thrown(MsgOverloaded)}

\* Beside these: an answer without text, a quota rejection (the one failure
\* the wrapper retries) and a rejection that carries no message.
CardResponses == Responses \cup {EmptyResponse} \cup {Thrown(m) : m \in {MsgQuota, ""}}

\* The dispatcher over several cards.
Next ==
    \/ \E f \in Images : OnRatingRequest(f, f)
    \/ Render
    \/ DispatcherEffect
    \/ \E i \in 1..Len(tasks), raw \in Responses : ServiceReply(i, raw)
    \/ \E i \in 1..Len(tasks) : ProcessCardResume(i)
    \/ \E id \in CardIds : OnDelete(id)
    \/ \E id \in CardIds : OnRetryGrading(id)
    \/ \E id \in CardIds : OnAcceptGrade(id)
    \/ \E remoteData \in SeqsUpTo(SavedRecords(1..MaxCards, {"grading"}), MaxRemote) :
          RefreshCollection(remoteData)

Spec == Init /\ [][Next]_vars

\* One card through its whole life cycle, with every kind of service answer.
InitCard == \E key \in BOOLEAN : Mounted(<<>>, MaxCards, key, TRUE, MaxCardEvents)

NextCard ==
    \/ \E f \in Images : OnRatingRequest(f, f)
    \/ Render
    \/ DispatcherEffect
    \/ \E i \in 1..Len(tasks), raw \in CardResponses : ServiceReply(i, raw)
    \/ \E i \in 1..Len(tasks) : ProcessCardResume(i)
    \/ \E id \in CardIds : OnDelete(id)
    \/ \E id \in CardIds, d \in {"higher"} : OnChallengeGrade(id, d)
    \/ \E id \in CardIds : OnRetryGrading(id)
    \/ \E id \in CardIds : OnAcceptGrade(id)
    \/ \E id \in CardIds, g \in Vals : OnManualGrade(id, g, g)
    \/ \E id \in CardIds : OnGetMarketValue(id)
    \/ \E rc \in SavedRecords({MaxCards}, {"grading", "needs_review"}) :
          RefreshCollection(<<rc>>)

SpecCard == InitCard /\ [][NextCard]_vars

\* The application is opened with MaxCards cards stored in status grading,
\* newest first, and no further event arrives.
Queue == [i \in 1..MaxCards |-> SavedCard(MaxCards + 1 - i, 1, "grading")]

InitQueue == Mounted(Queue, MaxCards + 1, TRUE, FALSE, 0)

NextQueue ==
    \/ Render
    \/ DispatcherEffect
    \/ \E i \in 1..Len(tasks), raw \in Responses : ServiceReply(i, raw)
    \/ \E i \in 1..Len(tasks) : ProcessCardResume(i)

\* React runs a scheduled render and a scheduled effect, every service call
\* returns, and a settled promise resumes its continuation.
SpecQueue ==
    /\ InitQueue
    /\ [][NextQueue]_vars
    /\ WF_vars(Render)
    /\ WF_vars(DispatcherEffect)
    /\ WF_vars(\E i \in 1..Len(tasks), raw \in Responses : ServiceReply(i, raw))
    /\ WF_vars(\E i \in 1..Len(tasks) : ProcessCardResume(i))

\* A signed-in user with one graded card kept by the browser and one card to
\* capture, with the saves and loads of the collection.
InitStore == Mounted(<<SavedCard(1, 1, "reviewed")>>, MaxCards, TRUE, TRUE, MaxEvents)

NextStore ==
    \/ \E f \in Images : OnRatingRequest(f, f)
    \/ Render
    \/ DispatcherEffect
    \/ \E i \in 1..Len(tasks), raw \in Responses : ServiceReply(i, raw)
    \/ \E i \in 1..Len(tasks) : ProcessCardResume(i)
    \/ \E id \in CardIds : OnAcceptGrade(id)
    \/ SaveTimerFires
    \/ \E ok \in BOOLEAN : SaveSettles(ok)
    \/ LoadCollection

SpecStore == InitStore /\ [][NextStore]_vars

\* The same, where a commit, an effect, the continuation of a settled call and
\* a timer that is due run in the end, a save in flight settles, and saves
\* that are tried again and again do not fail for ever.
SpecStoreFair ==
    /\ SpecStore
    /\ WF_vars(Render)
    /\ WF_vars(DispatcherEffect)
    /\ WF_vars(\E i \in 1..Len(tasks) : ProcessCardResume(i))
    /\ WF_vars(SaveTimerFires)
    /\ WF_vars(\E ok \in BOOLEAN : SaveSettles(ok))
    /\ SF_vars(SaveSettles(TRUE))

\* The same queue, with or without a key, in AI Studio or in a plain browser.
InitStudio ==
    \E key \in BOOLEAN, studio \in BOOLEAN :
        MountedIn("geminiService", studio, Queue, MaxCards + 1, key, FALSE, 0)

SpecStudio == InitStudio /\ [][NextQueue]_vars

\* One stored card in any in-progress status, with or without a key, and
\* every kind of answer of the service.
AllResponses ==
    CardResponses \cup {GarbageResponse} \cup
    {Thrown(m) : m \in {MsgBilling, MsgKeyInvalid, MsgPermission}}

InitOps ==
    \E status \in InProgressStatuses, key \in BOOLEAN :
        Mounted(<<SavedCard(MaxCards, 1, status)>>, MaxCards + 1, key, FALSE, 0)

NextOps ==
    \/ Render
    \/ DispatcherEffect
    \/ \E i \in 1..Len(tasks), raw \in AllResponses : ServiceReply(i, raw)
    \/ \E i \in 1..Len(tasks) : ProcessCardResume(i)

SpecOps == InitOps /\ [][NextOps]_vars

\* The same, when React runs every scheduled render and effect and every
\* settled promise resumes its continuation; nothing makes the service answer.
SpecSilent ==
    /\ InitOps
    /\ [][NextOps]_vars
    /\ WF_vars(Render)
    /\ WF_vars(DispatcherEffect)
    /\ WF_vars(\E i \in 1..Len(tasks) : ProcessCardResume(i))

\* The build whose service module is part_005: one stored card in any
\* in-progress status; a call is answered, rejected as overloaded, or cut off
\* by withTimeout.
TimedResponses ==
    {OkResponse(v) : v \in Vals} \cup {Thrown(MsgTimeout), Thrown(MsgOverloaded)}

InitTimed ==
    \E status \in InProgressStatuses :
        MountedWith("part_005", <<SavedCard(MaxCards, 1, status)>>, MaxCards + 1,
                    TRUE, FALSE, 0)

NextTimed ==
    \/ Render
    \/ DispatcherEffect
    \/ \E i \in 1..Len(tasks), raw \in TimedResponses : ServiceReply(i, raw)
    \/ \E i \in 1..Len(tasks) : ProcessCardResume(i)

SpecTimed == InitTimed /\ [][NextTimed]_vars

\* One call of withRetry, in services/geminiService.ts and in part_007, for a
\* stored card in any status in progress.
RetryResponses ==
    {OkResponse(v) : v \in Vals} \cup {Thrown(MsgOverloaded), Thrown(MsgQuota)}

InitRetry ==
    \E svc \in {"withRetry", "part_007"}, status \in InProgressStatuses :
        MountedWith(svc, <<SavedCard(MaxCards, 1, status)>>, MaxCards + 1, TRUE, FALSE, 0)

NextRetry ==
    \/ \E i \in 1..Len(cards) : WithRetryEnter(cards[i])
    \/ \E i \in 1..Len(tasks), raw \in RetryResponses : ServiceReply(i, raw)
    \/ \E i \in 1..Len(tasks), jitter \in Jitters : WithRetryResume(i, jitter)

SpecRetry == InitRetry /\ [][NextRetry]_vars

\* -------------------------------------------------------------- properties
InFlight(id) == {i \in 1..Len(tasks) : tasks[i].card.id = id}

\* The cards of the committed list a pass would still start.
Waiting == {i \in 1..Len(rendered) : Eligible(rendered[i], processingCards)}

\* C1: no card id has more than one grading-service operation in flight, and
\* the id of every operation in flight is reserved in the in-progress set, so
\* that no scheduling pass selects it before its operation has completed.
C1_OneOperationPerId ==
    \A id \in CardIds :
        /\ Cardinality(InFlight(id)) <= 1
        /\ InFlight(id) # {} => id \in processingCards

\* A pass has run over a committed list in which in-progress cards have their
\* operation in flight, and it left them alone.
C1_Witness ==
    /\ ~effectPending
    /\ Len(tasks) = 2
    /\ \A i \in 1..Len(tasks) : tasks[i].pc = "reply"
    /\ \E i \in 1..Len(rendered) :
          /\ rendered[i].status \in InProgressStatuses
          /\ Cardinality(InFlight(rendered[i].id)) = 1
          /\ dispatched[rendered[i].id] = 1

\* C2: the in-progress set never holds more ids than the concurrency budget,
\* and never more operations are in flight than that.
C2_WithinBudget ==
    /\ Cardinality(processingCards) <= ConcurrencyBudget
    /\ Len(tasks) <= ConcurrencyBudget

\* The budget is used up while a further eligible card waits.
C2_Witness ==
    /\ ~effectPending
    /\ Cardinality(processingCards) = ConcurrencyBudget
    /\ Waiting # {}

\* Invocation i runs to its end in this step (only finally shortens tasks).
Completes(i) == i \in 1..Len(tasks) /\ tasks' = RemoveAt(tasks, i)

\* A scheduling pass runs in this step.
Pass == effectPending /\ ~effectPending'

\* C3: from a queue of K > 2 in-progress cards with no further event, each
\* card is dispatched once for its status and none is dispatched twice.
C3_DispatchedOnce == \A id \in CardIds : dispatched[id] <= 1

\* The ids a pass has to serve: eligible in the committed list, or in flight.
Serviceable ==
    {rendered[i].id : i \in {j \in 1..Len(rendered) : rendered[j].status \in InProgressStatuses}}
        \cup processingCards

\* C4: after every scheduling pass the number of operations in flight is the
\* budget, or the number of eligible or in-flight cards when that is smaller.
C4_BudgetUsedAfterPass ==
    [][Pass => Cardinality(processingCards') = Min(ConcurrencyBudget, Cardinality(Serviceable))]_vars

\* C5: when the result of an operation arrives whose card the user deleted
\* while it was in flight, the result is discarded: no record has that id
\* afterwards, no record changes, and the id leaves the in-progress set.
C5_ResultDiscarded ==
    [][\A i \in 1..Len(tasks) :
          LET id == tasks[i].card.id
          IN  (Completes(i) /\ deleted[id] = "inflight" /\ dispatched[id] = 1)
                  => /\ id \notin IdsOf(cards')
                     /\ cards' = cards
                     /\ id \notin processingCards']_vars

\* The operation of invocation t has failed: no credential, a rejected call,
\* or an answer that is no JSON.
Failed(t) ==
    \/ t.pc = "nokey"
    \/ t.pc = "reply" /\ (t.resp.kind = "throw" \/ t.resp.text # "json")

\* The last answer to invocation t is a transient overload failure.
Transient(t) == t.pc = "reply" /\ t.resp = Thrown(MsgOverloaded)

\* C6: when an operation dispatched in any in-progress status ends in a
\* failure, the card gets status grading_failed and a non-empty errorMessage.
C6_FailureRecorded ==
    [][\A i \in 1..Len(tasks) :
          (Completes(i) /\ Failed(tasks[i]))
              => \A j \in 1..Len(cards) :
                    cards[j].id = tasks[i].card.id
                        => /\ cards'[j].status = "grading_failed"
                           /\ cards'[j].errorMessage \notin {"", NoString}]_vars

\* A card that was challenged failed for want of a credential, another
\* answer was rejected without a message.
C6_Witness ==
    \E i \in 1..Len(cards) :
        /\ cards[i].status = "grading_failed"
        /\ cards[i].errorMessage \in {MsgKeyMissing, "Unknown API Error"}
        /\ cards[i].challengeDirection = "higher"

C8_GradingMerged ==
    [][\A i \in 1..Len(tasks) :
          (Completes(i) /\ ~Failed(tasks[i]) /\ tasks[i].card.status = "grading")
              => \A j \in 1..Len(cards) :
                    cards[j].id = tasks[i].card.id
                        => /\ cards'[j].status = "needs_review"
                           /\ \A k \in IdentificationFields \cup
                                        {"details", "overallGrade", "gradeName"} :
                                 cards'[j][k] = tasks[i].resp.val]_vars

C8_Witness ==
    \E i \in 1..Len(cards) :
        /\ cards[i].status = "needs_review"
        /\ \A k \in IdentificationFields \cup {"details", "overallGrade", "gradeName"} :
              cards[i][k] \in Vals
        /\ cards[i].isSynced = "false"
        /\ tasks = <<>>

\* C9: a transient failure that leaves the operation below the retry cap
\* does not end it: the call is made again, the card does not fail.
C9_TransientRetried ==
    [][\A i \in 1..Len(tasks) :
          (Transient(tasks[i]) /\ tasks[i].attempts < DefaultMaxRetries) => ~Completes(i)]_vars

\* C10: no operation makes more calls than the first one and the retries of
\* the wrapper, an operation that meets nothing but transient failures makes
\* no more calls than the cap, and when it ends the card is grading_failed.
C10_RetriesBounded ==
    [][/\ \A i \in 1..Len(tasks') :
             /\ tasks'[i].attempts <= 1 + DefaultMaxRetries
             /\ tasks'[i].maxRetries >= 0
       /\ \A i \in 1..Len(tasks) :
             (Transient(tasks[i]) /\ Completes(i))
                 => /\ tasks[i].maxRetries = DefaultMaxRetries
                           => tasks[i].attempts <= DefaultMaxRetries
                    /\ \A j \in 1..Len(cards) :
                          cards[j].id = tasks[i].card.id
                              => cards'[j].status = "grading_failed"]_vars

\* A card whose only call met an overload has failed with that message.
C10_Witness ==
    \E i \in 1..Len(cards) :
        /\ cards[i].status = "grading_failed"
        /\ cards[i].errorMessage = MsgOverloaded

\* C11: a record recovered from localStorage in an in-progress status is
\* grading_failed with an errorMessage when the first pass runs, and no
\* operation is started for it as long as the user does not retry.
C11_RecoveredNotResumed ==
    /\ \A i \in 1..Len(rendered) :
          /\ rendered[i].status = "grading_failed"
          /\ rendered[i].errorMessage \notin {"", NoString}
    /\ tasks = <<>>

\* C12: every record in status reviewed has overallGrade, gradeName and
\* summary set, whatever intents, merges and completions led to it.
C12_ReviewedIsGraded ==
    \A i \in 1..Len(cards) :
        cards[i].status = "reviewed"
            => /\ cards[i].overallGrade # Undef
               /\ cards[i].gradeName # Undef
               /\ cards[i].summary # Undef

\* C13: a successful operation for a card dispatched in status
\* generating_summary or regenerating_summary sets the status to
\* fetching_value, so that the market value is looked up before reviewed.
C13_SummaryThenValue ==
    [][\A i \in 1..Len(tasks) :
          (/\ Completes(i)
           /\ ~Failed(tasks[i])
           /\ tasks[i].card.status \in {"generating_summary", "regenerating_summary"})
              => \A j \in 1..Len(cards) :
                    cards[j].id = tasks[i].card.id
                        => cards'[j].status = "fetching_value"]_vars

\* C14: a card accepted in status needs_review passes through
\* generating_summary before fetching_value and reviewed: no step takes a
\* needs_review record straight to fetching_value.
C14_AcceptOrder ==
    [][\A i \in 1..Len(cards), j \in 1..Len(cards') :
          (cards[i].id = cards'[j].id /\ cards[i].status = "needs_review")
              => cards'[j].status # "fetching_value"]_vars

\* C15: a successful challenge outcome for a card dispatched in status
\* challenging sets the status to needs_review, puts the returned values in
\* details, overallGrade, gradeName and summary, and clears challengeDirection.
C15_ChallengeResolved ==
    [][\A i \in 1..Len(tasks) :
          (Completes(i) /\ ~Failed(tasks[i]) /\ tasks[i].card.status = "challenging")
              => \A j \in 1..Len(cards) :
                    cards[j].id = tasks[i].card.id
                        => /\ cards'[j].status = "needs_review"
                           /\ \A k \in {"details", "overallGrade", "gradeName", "summary"} :
                                 cards'[j][k] = tasks[i].resp.val
                           /\ cards'[j].challengeDirection = NoString]_vars

\* The fields a market-value operation has to leave alone.
ValueFrame ==
    {"id", "frontImage", "backImage", "details", "overallGrade", "gradeName", "summary"}
        \cup IdentificationFields

C17_RetryResumesFailedStep ==
    [][\A id \in CardIds :
          OnRetryGrading(id)
              => \A j \in 1..Len(cards) :
                    (cards[j].id = id /\ cards[j].status = "grading_failed"
                                     /\ failedIn[id] # "none")
                        => cards'[j].status = failedIn[id]]_vars

\* C18: manual entry on a grading_failed card moves it to needs_review or
\* reviewed with the entered overallGrade and gradeName; the card gets no
\* in-progress status, so no operation is dispatched for it.
C18_ManualBypassesService ==
    [][\A id \in CardIds, g \in Vals :
          OnManualGrade(id, g, g)
              => \A j \in 1..Len(cards) :
                    (cards[j].id = id /\ cards[j].status = "grading_failed")
                        => /\ cards'[j].status \in {"needs_review", "reviewed"}
                           /\ cards'[j].overallGrade = g
                           /\ cards'[j].gradeName = g]_vars

\* C19: a successful operation leaves no errorMessage on the card: after a
\* failed card is retried and its operation succeeds, errorMessage is unset.
C19_ErrorCleared ==
    [][\A i \in 1..Len(tasks) :
          (Completes(i) /\ ~Failed(tasks[i]))
              => \A j \in 1..Len(cards) :
                    cards[j].id = tasks[i].card.id
                        => cards'[j].errorMessage = NoString]_vars

\* The step is a local mutation of the record id: the completion of its
\* operation, with a success or a failure, or one of the user's intents.
LocalMutation(id) ==
    \/ \E i \in 1..Len(tasks) : Completes(i) /\ tasks[i].card.id = id
    \/ OnAcceptGrade(id)
    \/ OnRetryGrading(id)
    \/ OnGetMarketValue(id)
    \/ \E d \in {"higher", "lower"} : OnChallengeGrade(id, d)
    \/ \E g \in Vals : OnManualGrade(id, g, g)

\* C20: every local mutation of a record clears isSynced: after a success
\* merge, after a failure and after each user intent the record is not
\* marked as synced.
C20_MutationClearsSynced ==
    [][\A id \in CardIds :
          LocalMutation(id)
              => \A j \in 1..Len(cards') :
                    cards'[j].id = id => cards'[j].isSynced # "true"]_vars

\* C21: loading and merging the remote collection never changes the status
\* of a record that is already in the record set (here: the merge of the copy
\* of the card that was saved when it was captured).
C21_MergeKeepsStatus ==
    [][\A rc \in SavedRecords({MaxCards}, {"grading"}) :
          RefreshCollection(<<rc>>)
              => \A i \in 1..Len(cards), j \in 1..Len(cards') :
                    cards[i].id = cards'[j].id => cards'[j].status = cards[i].status]_vars

\* C22: the id of a record never changes: the merge of a remote collection
\* leaves every id of the record set in the record set.
C22_IdImmutable ==
    [][\A remoteData \in SeqsUpTo(SavedRecords(1..MaxCards, {"grading"}), MaxRemote) :
          RefreshCollection(remoteData) => IdsOf(cards) \subseteq IdsOf(cards')]_vars

\* The last answer to invocation t is a terminal failure: no credential, an
\* invalid credential, a permission or service-disabled rejection, or an
\* exhausted quota.
Terminal(t) ==
    \/ t.pc = "nokey"
    \/ /\ t.pc = "reply"
       /\ t.resp \in {Thrown(m) : m \in {MsgKeyInvalid, MsgPermission, MsgQuota, MsgBilling}}

\* C23: a terminal failure is never retried: when the operation resumes after
\* it, it ends, and the card is grading_failed.
C23_TerminalNotRetried ==
    [][\A i \in 1..Len(tasks) :
          (Terminal(tasks[i]) /\ ProcessCardResume(i))
              => /\ Completes(i)
                 /\ \A j \in 1..Len(cards) :
                       cards[j].id = tasks[i].card.id
                           => cards'[j].status = "grading_failed"]_vars

\* The last answer to invocation t is empty or cannot be parsed.
Malformed(t) == t.pc = "reply" /\ t.resp \in {EmptyResponse, GarbageResponse}

\* C24: an empty or malformed answer that leaves the operation below the
\* retry cap does not end it: the call is made again, the card does not fail.
C24_MalformedRetried ==
    [][\A i \in 1..Len(tasks) :
          (Malformed(tasks[i]) /\ tasks[i].attempts < DefaultMaxRetries) => ~Completes(i)]_vars

\* withTimeout has cut off the last call of invocation t.
TimedOut(t) == t.pc = "reply" /\ t.resp = Thrown(MsgTimeout)

\* C25: a call cut off by the per-attempt timeout is attempted again while
\* retries remain; the card fails only when none is left, and then with the
\* message of the timeout.
C25_TimeoutRetried ==
    [][\A i \in 1..Len(tasks) :
          /\ (TimedOut(tasks[i]) /\ tasks[i].maxRetries > 0) => ~Completes(i)
          /\ (TimedOut(tasks[i]) /\ Completes(i))
                => \A j \in 1..Len(cards) :
                      cards[j].id = tasks[i].card.id
                          => /\ cards'[j].status = "grading_failed"
                             /\ cards'[j].errorMessage = MsgTookTooLong]_vars

\* C26: every dispatched operation eventually completes, also when the
\* service never answers: no id stays in the in-progress set forever.
C26_OperationCompletes ==
    \A id \in CardIds : (id \in processingCards) ~> (id \notin processingCards)

C28_FailedSaveSwallowed ==
    [][SaveSettles(FALSE)
          => /\ cards' = cards
             /\ rendered' = rendered
             /\ processingCards' = processingCards
             /\ tasks' = tasks
             /\ keyPrompts' = keyPrompts
             /\ store' = store
             /\ lastSavedRef' = lastSavedRef
             /\ lastSavedRef' # <<Stringify(saving[1])>>]_vars

\* The timer has fired on cards that are not the saved text, and the save
\* it started has settled without recording them.
C28_Witness ==
    /\ user
    /\ ~saveTimer
    /\ saving = <<>>
    /\ Len(rendered) > 0
    /\ lastSavedRef # <<Stringify(rendered)>>
    /\ processingCards # {}

\* The cards read back from the store: getCollection, then normalizeCards.
ReadBack(file) == normalizeCards(getCollection(file), nextId, nextId)

\* C29: after a save that succeeds, the cards read back from the store are
\* as many as the cards saved, in the same order, each with the same id,
\* status, overallGrade and summary.
C29_RoundTrip ==
    [][SaveSettles(TRUE)
          => /\ Len(ReadBack(store')) = Len(saving[1])
             /\ \A i \in 1..Len(saving[1]) :
                   /\ ReadBack(store')[i].id = saving[1][i].id
                   /\ ReadBack(store')[i].status = saving[1][i].status
                   /\ ReadBack(store')[i].overallGrade = saving[1][i].overallGrade
                   /\ ReadBack(store')[i].summary = saving[1][i].summary]_vars

\* The store holds a card in progress, and a card with a grade and a summary.
C29_Witness ==
    /\ store # <<>>
    /\ \E i \in 1..Len(ReadBack(store)) : ReadBack(store)[i].status \in InProgressStatuses
    /\ \E i \in 1..Len(ReadBack(store)) :
          /\ ReadBack(store)[i].overallGrade # Undef
          /\ ReadBack(store)[i].summary # Undef


\* The record a success leaves, from the record it finds, the status the
\* operation was started in and the value the service returned.
Merged(record, status, v) ==
    [k \in DOMAIN record |->
        IF k = "status"
        THEN (IF status \in {"grading", "challenging"} THEN "needs_review" ELSE "reviewed")
        ELSE IF k = "isSynced" THEN "false"
        ELSE IF k \in DOMAIN Payload(status, v) THEN Payload(status, v)[k]
        ELSE record[k]]

\* C30: the record a successful operation writes is a function of the record
\* it finds, the status the operation was started in and the outcome, and of
\* nothing else: every success step writes Merged of these three, leaves the
\* other records alone, and two operations in hand for the same status and
\* outcome would write the same records.
C30_MergeDeterministic ==
    [][\A i \in 1..Len(tasks) :
          (ProcessCardResume(i) /\ tasks[i].pc = "reply" /\ Resume(tasks[i]).step = "success")
              => /\ Len(cards') = Len(cards)
                 /\ \A j \in 1..Len(cards) :
                       cards'[j] = IF cards[j].id = tasks[i].card.id
                                   THEN Merged(cards[j], tasks[i].card.status,
                                               Resume(tasks[i]).val)
                                   ELSE cards[j]
                 /\ \A k \in 1..Len(tasks) :
                       (/\ tasks[k].pc = "reply"
                        /\ Resume(tasks[k]).step = "success"
                        /\ tasks[k].card.id = tasks[i].card.id
                        /\ tasks[k].card.status = tasks[i].card.status
                        /\ Resume(tasks[k]).val = Resume(tasks[i]).val)
                           => ApplySuccess(cards, tasks[k].card, Resume(tasks[k]).val) = cards']_vars

\* A success has been written (needs_review, not synced) on a card that keeps
\* the error message and the challenge direction it had before.
C30_Witness ==
    /\ tasks = <<>>
    /\ \E j \in 1..Len(cards) :
          /\ cards[j].status = "needs_review"
          /\ cards[j].challengeDirection # NoString
          /\ cards[j].isSynced = "false"
          /\ cards[j].errorMessage # NoString


\* The eligible records of the committed record set, in its order.
EligibleQueue ==
    SelectSeq(rendered, LAMBDA c : c.status \in InProgressStatuses /\ c.id \notin processingCards)

\* The number of records a pass is to dispatch: min(e, 2 - p).
PassCount == Min(Len(EligibleQueue), ConcurrencyBudget - Cardinality(processingCards))

\* C31: a scheduling pass starts one operation for each of the first
\* min(e, 2 - p) eligible records, in the order of the record set, and for no
\* other record.
C31_PassDispatchesFirstEligible ==
    [][Pass => /\ Len(tasks') = Len(tasks) + PassCount
               /\ \A k \in 1..PassCount :
                     /\ Len(tasks) + k <= Len(tasks')
                     /\ tasks'[Len(tasks) + k].card = EligibleQueue[k]
               /\ processingCards' =
                     processingCards \cup {EligibleQueue[k].id : k \in 1..PassCount}]_vars


\* C32: the step that completes an operation, whatever its outcome and
\* whether or not its card is still in the record set, takes the id out of
\* the in-progress set in the same step as it writes the result, so that no
\* later pass sees it; and the in-progress set holds the ids of the
\* operations in flight and no other, hence none when none is in flight.
C32_ReleasedOnCompletion ==
    /\ [][\A i \in 1..Len(tasks) :
             (ProcessCardResume(i) /\ Resume(tasks[i]).step # "retry")
                 => /\ tasks[i].card.id \notin processingCards'
                    /\ tasks' = RemoveAt(tasks, i)]_vars
    /\ [](processingCards = {tasks[i].card.id : i \in 1..Len(tasks)})

\* A success, a failure and the result of a deleted card have all arrived,
\* and nothing is in flight.
C32_Witness ==
    /\ tasks = <<>>
    /\ processingCards = {}
    /\ \E id \in CardIds : deleted[id] = "inflight"
    /\ \E i \in 1..Len(cards) : cards[i].status = "grading_failed"
    /\ \E i \in 1..Len(cards) : cards[i].status = "needs_review"


\* C33: in withRetry no wait exceeds MaxDelay, the part of the wait without
\* jitter is larger at each attempt than at the one before, the calls made
\* never exceed the retry count, and a failure of the last call permitted,
\* retryable or not, is thrown instead of retried.
C33_BackoffBounded ==
    /\ [](/\ \A i \in 1..Len(tasks) :
               /\ tasks[i].delay <= MaxDelay
               /\ tasks[i].attempts <= retries(service)
          /\ \A k \in 1..(retries(service) - 2) :
                JitterFree(service, k) > JitterFree(service, k - 1))
    /\ [][\A i \in 1..Len(tasks), jitter \in Jitters :
             (/\ WithRetryResume(i, jitter)
              /\ tasks[i].attempts = retries(service)
              /\ tasks[i].resp.kind = "throw")
                 => /\ tasks'[i].pc = "thrown"
                    /\ tasks'[i].attempts = tasks[i].attempts]_vars

\* withRetry has thrown after its last call failed with a retryable error,
\* the wait before that call having been cut to MaxDelay.
C33_Witness ==
    /\ service = "withRetry"
    /\ Len(tasks) = 1
    /\ tasks[1].pc = "thrown"
    /\ tasks[1].attempts = retries(service)
    /\ tasks[1].delay = MaxDelay
    /\ tasks[1].resp = Thrown(MsgBusy)


\* C34: the ids of the records of the record set are pairwise distinct.
C34_IdsDistinct == Cardinality(IdsOf(cards)) = Len(cards)


\* C35: a result that arrives for a card whose status is no longer the status
\* the operation was started in leaves that card's status as it is.
C35_StaleResultNotMerged ==
    [][\A i \in 1..Len(tasks) :
          (ProcessCardResume(i) /\ Resume(tasks[i]).step # "retry")
              => \A j \in 1..Len(cards) :
                    (cards[j].id = tasks[i].card.id /\ cards[j].status # tasks[i].card.status)
                        => cards'[j].status = cards[j].status]_vars


\* C36: a step that is not a capture puts no record into the record set with
\* the id of a card the user has deleted.
C36_DeletedStaysDeleted ==
    [][\A id \in CardIds :
          (deleted[id] # "no" /\ id \notin IdsOf(cards)) => id \notin IdsOf(cards')]_vars


\* The store holds the record set: the file is the text of the cards, or
\* there is no file and there are no cards.
StoreIsCurrent ==
    \/ store = <<Stringify(cards)>>
    \/ store = <<>> /\ cards = <<>>

\* C37: for a signed-in user, from some point on the store holds the current
\* record set for good.
C37_EventuallySaved == user => <>[]StoreIsCurrent

====
